---- MODULE Spec2Model ----
(***************************************************************************)
(* Model of the diff summarizer of amplifier_module_hooks_concise_display: *)
(* _find_common_context and _render_diff_block with the helpers they call  *)
(* (str.split, list slicing, _truncate, _format_diff_line).                *)
(*                                                                         *)
(* A text is a sequence of one-character strings.  An output line is a     *)
(* sequence of tokens: the Rich markup tags ("[dim]", "[/dim]", ...) are   *)
(* one token each, every other character is a token of its own.            *)
(***************************************************************************)
EXTENDS Integers, Sequences, FiniteSets, TLC

\* ------------------------------------------------------------------ bounds
MaxLines == 6
MaxContext == 2
\* the max_width of every rendering: narrower than the long line of LineSet,
\* so that both branches of _truncate are taken
DisplayWidth == 4

\* ------------------------------------------------------- program constants
max_diff_lines == 4

\* the lines the input texts are built from: an empty line and a line with
\* surrounding blanks that is longer than the display width allows
LineSet == {<<>>, <<" ", "a", "b", "c", " ">>}
\* the one-character ellipsis U+2026, one token
Ellipsis == "..."

Min(a, b) == IF a <= b THEN a ELSE b
Max(a, b) == IF a >= b THEN a ELSE b

\* ----------------------------------------------------- Python list slicing
\* A slice bound i of a list of length n: negative counts from the end,
\* and the result is clamped to 0..n.
PyBound(i, n) == IF i < 0 THEN Max(n + i, 0) ELSE Min(i, n)

\* s[lo:hi]
PySlice(s, lo, hi) ==
    LET a == PyBound(lo, Len(s))
        b == PyBound(hi, Len(s))
    IN  IF a >= b THEN <<>> ELSE SubSeq(s, a + 1, b)

\* s[lo:]
PySliceFrom(s, lo) == PySlice(s, lo, Len(s))

\* s[:hi]
PySliceTo(s, hi) == PySlice(s, 0, hi)

\* s[i] for an index i in -len(s) .. len(s)-1
PyIndex(s, i) == IF i < 0 THEN s[Len(s) + i + 1] ELSE s[i + 1]

\* ------------------------------------------------------------ str helpers
\* text.split("\n"): the pieces between the separators, never empty.
RECURSIVE SplitLoop(_, _, _)
SplitLoop(text, i, cur) ==
    IF i > Len(text) THEN <<cur>>
    ELSE IF text[i] = "\n" THEN <<cur>> \o SplitLoop(text, i + 1, <<>>)
    ELSE SplitLoop(text, i + 1, Append(cur, text[i]))

\* mutant: text.splitlines(): no piece for an empty text or after a final newline
Split_splitlines(text) ==
    IF text = <<>> THEN <<>>
    ELSE IF text[Len(text)] = "\n" THEN SplitLoop(SubSeq(text, 1, Len(text) - 1), 1, <<>>)
    ELSE SplitLoop(text, 1, <<>>)

Split(text) == SplitLoop(text, 1, <<>>)

\* text.replace("\n", " ")
ReplaceNewlines(text) == [i \in 1..Len(text) |-> IF text[i] = "\n" THEN " " ELSE text[i]]

IsSpace(c) == c \in {" ", "\n", "\t"}

\* text.strip()
RECURSIVE LStrip(_)
LStrip(text) ==
    IF text # <<>> /\ IsSpace(Head(text)) THEN LStrip(Tail(text)) ELSE text

RECURSIVE RStrip(_)
RStrip(text) ==
    IF text # <<>> /\ IsSpace(text[Len(text)])
    THEN RStrip(SubSeq(text, 1, Len(text) - 1)) ELSE text

Strip(text) == RStrip(LStrip(text))

\* mutant: max_len characters are kept before the ellipsis
Truncate_keep_all(text, max_len) ==
    LET t == Strip(ReplaceNewlines(text))
    IN  IF Len(t) <= max_len THEN t
        ELSE PySliceTo(t, max_len) \o <<Ellipsis>>

\* _truncate(text, max_len)
Truncate(text, max_len) ==
    LET t == Strip(ReplaceNewlines(text))
    IN  IF Len(t) <= max_len THEN t
        ELSE PySliceTo(t, max_len - 1) \o <<Ellipsis>>

\* str(n) for n >= 0, as the f-string prints it
Digit(d) == CASE d = 0 -> "0" [] d = 1 -> "1" [] d = 2 -> "2" [] d = 3 -> "3"
              [] d = 4 -> "4" [] d = 5 -> "5" [] d = 6 -> "6" [] d = 7 -> "7"
              [] d = 8 -> "8" [] d = 9 -> "9"

RECURSIVE IntToStr(_)
IntToStr(n) == IF n < 10 THEN <<Digit(n)>> ELSE IntToStr(n \div 10) \o <<Digit(n % 10)>>

\* ------------------------------------------------- _find_common_context
\* mutant: the prefix walk stops one line short of the shorter sequence
RECURSIVE PrefixLoop_short(_, _, _, _)
PrefixLoop_short(old_lines, new_lines, min_len, prefix_len) ==
    IF prefix_len < min_len - 1 /\ PyIndex(old_lines, prefix_len) = PyIndex(new_lines, prefix_len)
    THEN PrefixLoop_short(old_lines, new_lines, min_len, prefix_len + 1)
    ELSE prefix_len

\* while prefix_len < min_len and old_lines[prefix_len] == new_lines[prefix_len]
RECURSIVE PrefixLoop(_, _, _, _)
PrefixLoop(old_lines, new_lines, min_len, prefix_len) ==
    IF prefix_len < min_len /\ PyIndex(old_lines, prefix_len) = PyIndex(new_lines, prefix_len)
    THEN PrefixLoop(old_lines, new_lines, min_len, prefix_len + 1)
    ELSE prefix_len

\* mutant: the suffix walk is not clamped by the prefix
RECURSIVE SuffixLoop_unclamped(_, _, _, _, _)
SuffixLoop_unclamped(old_lines, new_lines, min_len, prefix_len, suffix_len) ==
    IF suffix_len < min_len
       /\ PyIndex(old_lines, -(suffix_len + 1)) = PyIndex(new_lines, -(suffix_len + 1))
    THEN SuffixLoop_unclamped(old_lines, new_lines, min_len, prefix_len, suffix_len + 1)
    ELSE suffix_len

\* mutant: the suffix walk stops one line early
RECURSIVE SuffixLoop_short(_, _, _, _, _)
SuffixLoop_short(old_lines, new_lines, min_len, prefix_len, suffix_len) ==
    IF suffix_len < min_len - prefix_len - 1
       /\ PyIndex(old_lines, -(suffix_len + 1)) = PyIndex(new_lines, -(suffix_len + 1))
    THEN SuffixLoop_short(old_lines, new_lines, min_len, prefix_len, suffix_len + 1)
    ELSE suffix_len

\* while suffix_len < min_len - prefix_len and old_lines[-(suffix_len+1)] == new_lines[-(suffix_len+1)]
RECURSIVE SuffixLoop(_, _, _, _, _)
SuffixLoop(old_lines, new_lines, min_len, prefix_len, suffix_len) ==
    IF suffix_len < min_len - prefix_len
       /\ PyIndex(old_lines, -(suffix_len + 1)) = PyIndex(new_lines, -(suffix_len + 1))
    THEN SuffixLoop(old_lines, new_lines, min_len, prefix_len, suffix_len + 1)
    ELSE suffix_len

\* mutant: new_end is computed from len(old_lines)
find_common_context_old_end(old_lines, new_lines) ==
    LET min_len    == Min(Len(old_lines), Len(new_lines))
        prefix_len == PrefixLoop(old_lines, new_lines, min_len, 0)
        suffix_len == SuffixLoop(old_lines, new_lines, min_len, prefix_len, 0)
        old_end    == IF suffix_len > 0 THEN Len(old_lines) - suffix_len ELSE Len(old_lines)
        new_end    == old_end
    IN  [leading     |-> PySliceTo(old_lines, prefix_len),
         old_changed |-> PySlice(old_lines, prefix_len, old_end),
         new_changed |-> PySlice(new_lines, prefix_len, new_end),
         trailing    |-> IF suffix_len > 0
                         THEN PySliceFrom(old_lines, Len(old_lines) - suffix_len)
                         ELSE <<>>,
         extra       |-> <<>>]

\* mutant: the suffix is found first and the prefix is clamped by it
find_common_context_suffix_first(old_lines, new_lines) ==
    LET min_len    == Min(Len(old_lines), Len(new_lines))
        suffix_len == SuffixLoop(old_lines, new_lines, min_len, 0, 0)
        prefix_len == PrefixLoop(old_lines, new_lines, min_len - suffix_len, 0)
        old_end    == IF suffix_len > 0 THEN Len(old_lines) - suffix_len ELSE Len(old_lines)
        new_end    == IF suffix_len > 0 THEN Len(new_lines) - suffix_len ELSE Len(new_lines)
    IN  [leading     |-> PySliceTo(old_lines, prefix_len),
         old_changed |-> PySlice(old_lines, prefix_len, old_end),
         new_changed |-> PySlice(new_lines, prefix_len, new_end),
         trailing    |-> IF suffix_len > 0
                         THEN PySliceFrom(old_lines, Len(old_lines) - suffix_len)
                         ELSE <<>>,
         extra       |-> <<>>]

find_common_context(old_lines, new_lines) ==
    LET min_len    == Min(Len(old_lines), Len(new_lines))
        prefix_len == PrefixLoop(old_lines, new_lines, min_len, 0)
        suffix_len == SuffixLoop(old_lines, new_lines, min_len, prefix_len, 0)
        old_end    == IF suffix_len > 0 THEN Len(old_lines) - suffix_len ELSE Len(old_lines)
        new_end    == IF suffix_len > 0 THEN Len(new_lines) - suffix_len ELSE Len(new_lines)
    IN  [leading     |-> PySliceTo(old_lines, prefix_len),
         old_changed |-> PySlice(old_lines, prefix_len, old_end),
         new_changed |-> PySlice(new_lines, prefix_len, new_end),
         trailing    |-> IF suffix_len > 0
                         THEN PySliceFrom(old_lines, Len(old_lines) - suffix_len)
                         ELSE <<>>,
         extra       |-> <<>>]

\* ---------------------------------------------------- _render_diff_block
\* f"[dim]  {_truncate(line, max_width - 2)}[/dim]"
ContextLine(line, max_width) ==
    <<"[dim]", " ", " ">> \o Truncate(line, max_width - 2) \o <<"[/dim]">>

\* _format_diff_line(line, prefix, color, max_len)
format_diff_line(line, prefix, color, max_len) ==
    <<"[bold ", color, "]", prefix, " ">> \o Truncate(line, max_len - 2)
        \o <<"[/bold ", color, "]">>

\* f"[{color}]  ... (+{n})[/{color}]"
ElisionLine(color, n) ==
    <<"[", color, "]", " ", " ", ".", ".", ".", " ", "(", "+">> \o IntToStr(n)
        \o <<")", "[/", color, "]">>

\* if len(leading) > context_lines: leading = leading[-context_lines:]
LimitLeading(leading, context_lines) ==
    IF Len(leading) > context_lines THEN PySliceFrom(leading, -context_lines) ELSE leading

\* mutant: the last N lines of the trailing context are kept, as for leading
LimitTrailing_last(trailing, context_lines) ==
    IF Len(trailing) > context_lines
    THEN SubSeq(trailing, Len(trailing) - context_lines + 1, Len(trailing))
    ELSE trailing

\* if len(trailing) > context_lines: trailing = trailing[:context_lines]
LimitTrailing(trailing, context_lines) ==
    IF Len(trailing) > context_lines THEN PySliceTo(trailing, context_lines) ELSE trailing

\* for line in leading / trailing: lines.append(f"[dim]  ...")
ContextSegment(ctx, max_width) == [i \in 1..Len(ctx) |-> ContextLine(ctx[i], max_width)]

\* mutant: the marker is appended as soon as the cap is reached
ChangedSegment_at_cap(changed, prefix, color, max_width) ==
    LET kept      == PySliceTo(changed, max_diff_lines)
        truncated == Len(changed) >= max_diff_lines
    IN  [i \in 1..Len(kept) |-> format_diff_line(kept[i], prefix, color, max_width)]
        \o (IF truncated THEN <<ElisionLine(color, Len(changed) - max_diff_lines)>> ELSE <<>>)

\* for line in changed[:max_diff_lines]: lines.append(_format_diff_line(...))
\* if truncated: lines.append(elision marker)
ChangedSegment(changed, prefix, color, max_width) ==
    LET kept      == PySliceTo(changed, max_diff_lines)
        truncated == Len(changed) > max_diff_lines
    IN  [i \in 1..Len(kept) |-> format_diff_line(kept[i], prefix, color, max_width)]
        \o (IF truncated THEN <<ElisionLine(color, Len(changed) - max_diff_lines)>> ELSE <<>>)

\* mutant: the additions are emitted before the deletions
RenderParts_add_first(c, max_width, context_lines) ==
    ContextSegment(LimitLeading(c.leading, context_lines), max_width)
        \o ChangedSegment(c.new_changed, "+", "green", max_width)
        \o ChangedSegment(c.old_changed, "-", "red", max_width)
        \o ContextSegment(LimitTrailing(c.trailing, context_lines), max_width)

\* the body of _render_diff_block after the call of _find_common_context:
\* c is the tuple that call returned
RenderParts(c, max_width, context_lines) ==
    ContextSegment(LimitLeading(c.leading, context_lines), max_width)
        \o ChangedSegment(c.old_changed, "-", "red", max_width)
        \o ChangedSegment(c.new_changed, "+", "green", max_width)
        \o ContextSegment(LimitTrailing(c.trailing, context_lines), max_width)

render_diff_block(old_str, new_str, max_width, context_lines) ==
    RenderParts(find_common_context(Split(old_str), Split(new_str)), max_width, context_lines)

\* ------------------------------------------------------------ the machine
\* old_text, new_text: the two texts; old_lines, new_lines: their lines once
\* split; split: the result of _find_common_context; width, window: the
\* max_width and context_lines of the rendering; lines: the rendering
VARIABLES old_text, new_text, pc, old_lines, new_lines, split, width, window, lines

diffVars == <<old_text, new_text, pc, old_lines, new_lines, split, width, window, lines>>

\* a call of _truncate: its text and max_len, and the string it returned
VARIABLES t_pc, t_text, t_max, t_out

truncVars == <<t_pc, t_text, t_max, t_out>>

\* a call of _format_compact_number: its argument and the string it returned
VARIABLES n_pc, n_in, n_out

numVars == <<n_pc, n_in, n_out>>

\* a call of handle_tool_pre or handle_tool_post: config.enabled, the event
\* data as the caller passed it (h_in), the caller's data dict after the call
\* (h_data), the HookResult returned and the texts written to the console
VARIABLES h_pc, h_enabled, h_in, h_data, h_result, h_written

hookVars == <<h_pc, h_enabled, h_in, h_data, h_result, h_written>>

\* one ConciseDisplayHooks instance handling content_block events:
\* config.enabled and config.show_thinking, self.thinking_blocks, the blocks
\* each session has started and not ended (cb_open, the state of the event
\* sources) and the last event handled with what the handler wrote for it
VARIABLES cb_enabled, cb_show_thinking, thinking_blocks, cb_open, cb_last

blockVars == <<cb_enabled, cb_show_thinking, thinking_blocks, cb_open, cb_last>>

vars == <<diffVars, truncVars, numVars, hookVars, blockVars>>

\* a dict without keys
EmptyDict == [k \in {} |-> <<>>]

NoResult == [action |-> "none", data |-> EmptyDict]

\* no tool hook is under way
HookIdle ==
    /\ h_pc = "idle" /\ h_enabled = TRUE /\ h_in = EmptyDict /\ h_data = EmptyDict
    /\ h_result = NoResult /\ h_written = <<>>

NoEvent ==
    [kind |-> "none", session |-> <<>>, index |-> 0, block_type |-> "",
     text |-> <<>>, tracked |-> FALSE, written |-> <<>>]

\* no content_block event has been handled
BlockIdle ==
    /\ cb_enabled = TRUE /\ cb_show_thinking = TRUE /\ thinking_blocks = EmptyDict
    /\ cb_open = {} /\ cb_last = NoEvent

\* no call of _format_compact_number is under way
NumIdle == n_pc = "idle" /\ n_in = 0 /\ n_out = <<>>

\* no call of _truncate is under way
TruncIdle == t_pc = "idle" /\ t_text = <<>> /\ t_max = 0 /\ t_out = <<>>

\* "\n".join(ls)
RECURSIVE Join(_)
Join(ls) ==
    IF Len(ls) = 1 THEN ls[1] ELSE ls[1] \o <<"\n">> \o Join(Tail(ls))

RECURSIVE LineSeqs(_)
LineSeqs(n) ==
    IF n = 0 THEN {<<>>}
    ELSE {Append(ls, l) : ls \in LineSeqs(n - 1), l \in LineSet}

\* the input texts: up to MaxLines lines of LineSet, joined by newlines
Texts == {Join(ls) : ls \in UNION {LineSeqs(n) : n \in 1..MaxLines}}

Widths == {DisplayWidth}

NoSplit == [leading |-> <<>>, old_changed |-> <<>>, new_changed |-> <<>>,
            trailing |-> <<>>, extra |-> <<>>]

Init ==
    /\ old_text \in Texts
    /\ new_text \in Texts
    /\ pc = "start"
    /\ old_lines = <<>>
    /\ new_lines = <<>>
    /\ split = NoSplit
    /\ width = DisplayWidth
    /\ window = 2
    /\ lines = <<>>
    /\ TruncIdle
    /\ NumIdle
    /\ HookIdle
    /\ BlockIdle

\* a call _find_common_context(old_str.split("\n"), new_str.split("\n"))
CallFindCommonContext ==
    /\ pc = "start"
    /\ \E ol \in {Split(old_text)}, nl \in {Split(new_text)} :
          /\ old_lines' = ol
          /\ new_lines' = nl
          /\ split' = find_common_context(ol, nl)
    /\ pc' = "split"
    /\ UNCHANGED <<old_text, new_text, width, window, lines>>
    /\ UNCHANGED <<truncVars, numVars, hookVars, blockVars>>

\* a call _render_diff_block(old_str, new_str, max_width, context_lines):
\* the texts are split, the common context is found and the block rendered
CallRenderDiffBlock ==
    /\ pc = "start"
    /\ \E ol \in {Split(old_text)}, nl \in {Split(new_text)} :
       \E c \in {find_common_context(ol, nl)} :
       \E w \in Widths, n \in 0..MaxContext :
          /\ old_lines' = ol
          /\ new_lines' = nl
          /\ split' = c
          /\ width' = w
          /\ window' = n
          /\ lines' = RenderParts(c, w, n)
    /\ pc' = "rendered"
    /\ UNCHANGED <<old_text, new_text>>
    /\ UNCHANGED <<truncVars, numVars, hookVars, blockVars>>

Next == CallFindCommonContext \/ CallRenderDiffBlock

Spec == Init /\ [][Next]_vars

\* ------------------------------------------------- _find_common_context
min_lines == Min(Len(old_lines), Len(new_lines))

\* the last k elements of s, the first k elements of s
LastN(s, k) == SubSeq(s, Len(s) - k + 1, Len(s))
FirstN(s, k) == SubSeq(s, 1, k)

\* C1: round trip: leading + old_changed + trailing is old and
\* leading + new_changed + trailing is new, for the lines of any two texts.
C1_RoundTrip ==
    pc = "split" =>
        /\ old_lines = Split(old_text) /\ new_lines = Split(new_text)
        /\ split.leading \o split.old_changed \o split.trailing = old_lines
        /\ split.leading \o split.new_changed \o split.trailing = new_lines

\* both sides changed, between a common prefix and a common suffix
C1_Witness ==
    /\ pc = "split"
    /\ split.leading # <<>> /\ split.trailing # <<>>
    /\ split.old_changed # <<>> /\ split.new_changed # <<>>
    /\ Len(old_lines) # Len(new_lines)

\* C2: no overlap: len(leading) + len(trailing) <= min(len(old), len(new)).
C2_NoOverlap ==
    pc = "split" => Len(split.leading) + Len(split.trailing) <= min_lines

\* one sequence is a proper prefix of the other and their last lines agree,
\* so an unclamped suffix would reuse lines of the prefix
C2_Witness ==
    /\ pc = "split"
    /\ Len(old_lines) < Len(new_lines)
    /\ Len(split.leading) = Len(old_lines)
    /\ old_lines[Len(old_lines)] = new_lines[Len(new_lines)]
    /\ split.trailing = <<>>

\* C3: identity: for equal sequences both changed parts are empty, leading
\* is the whole sequence and trailing is empty.
C3_Identity ==
    (pc = "split" /\ old_lines = new_lines) =>
        /\ split.old_changed = <<>>
        /\ split.new_changed = <<>>
        /\ split.leading = old_lines
        /\ split.trailing = <<>>

C3_Witness ==
    /\ pc = "split"
    /\ old_lines = new_lines
    /\ Len(old_lines) >= 3
    /\ split.leading = old_lines

\* C4: leading is the longest common prefix: with p = len(leading),
\* p <= min(len(old), len(new)), old[i] = new[i] for all i < p, and p is the
\* shorter length or old[p] # new[p].
C4_LongestPrefix ==
    pc = "split" =>
        LET p == Len(split.leading)
        IN  /\ p <= min_lines
            /\ split.leading = FirstN(old_lines, p)
            /\ \A i \in 1..p : old_lines[i] = new_lines[i]
            /\ p = min_lines \/ old_lines[p + 1] # new_lines[p + 1]

\* the prefix ends at a mismatch inside both sequences
C4_Witness ==
    /\ pc = "split"
    /\ Len(split.leading) >= 2
    /\ Len(split.leading) < min_lines
    /\ old_lines[Len(split.leading) + 1] # new_lines[Len(split.leading) + 1]

\* C5: trailing has the largest length s with s <= min(len(old), len(new))
\* - prefixLength and old[len(old)-1-j] = new[len(new)-1-j] for all j < s; it
\* is the last s lines of old and also the last s lines of new.
C5_LongestSuffix ==
    pc = "split" =>
        LET p == Len(split.leading)
            s == Len(split.trailing)
        IN  /\ s <= min_lines - p
            /\ \A j \in 0..(s - 1) :
                  old_lines[Len(old_lines) - j] = new_lines[Len(new_lines) - j]
            /\ \/ s = min_lines - p
               \/ old_lines[Len(old_lines) - s] # new_lines[Len(new_lines) - s]
            /\ split.trailing = LastN(old_lines, s)
            /\ split.trailing = LastN(new_lines, s)

\* the suffix ends at a mismatch, before it reaches the prefix
C5_Witness ==
    /\ pc = "split"
    /\ Len(split.trailing) >= 2
    /\ Len(split.trailing) < min_lines - Len(split.leading)
    /\ Len(old_lines) # Len(new_lines)

\* ---------------------------------------------------- _render_diff_block
\* the kind of an output line, read off its markup
IsContext(l)  == l[1] = "[dim]"
IsDeletion(l) == l[1] = "[bold " /\ l[2] = "red"
IsAddition(l) == l[1] = "[bold " /\ l[2] = "green"
IsDelMark(l)  == l[1] = "[" /\ l[2] = "red"
IsAddMark(l)  == l[1] = "[" /\ l[2] = "green"
IsMark(l)     == IsDelMark(l) \/ IsAddMark(l)

\* the number of context lines before the first line that is not context
RECURSIVE LeadCount(_)
LeadCount(ls) ==
    IF ls # <<>> /\ IsContext(Head(ls)) THEN 1 + LeadCount(Tail(ls)) ELSE 0

\* the leading context shown: the context lines before the change (all of
\* the output when nothing changed)
LeadShown(ls) == FirstN(ls, LeadCount(ls))

\* the trailing context shown: the context lines after the change
TrailShown(ls) == SelectSeq(SubSeq(ls, LeadCount(ls) + 1, Len(ls)), IsContext)

\* the count printed in an elision marker "[color]  ... (+K)[/color]"
DigitValue(c) == CHOOSE d \in 0..9 : Digit(d) = c

RECURSIVE StrToInt(_)
StrToInt(ds) ==
    IF ds = <<>> THEN 0
    ELSE 10 * StrToInt(SubSeq(ds, 1, Len(ds) - 1)) + DigitValue(ds[Len(ds)])

MarkCount(l) == StrToInt(SubSeq(l, 12, Len(l) - 4))

\* C6: the leading context shown is exactly the last min(len(leading), N)
\* lines of the common prefix, for every window N >= 0.
C6_LeadingWindow ==
    pc = "rendered" =>
        LeadShown(lines) =
            ContextSegment(LastN(split.leading, Min(Len(split.leading), window)), width)

\* C7: the trailing context shown is exactly the first min(len(trailing), N)
\* lines of the common suffix, and no elision marker stands for the dropped
\* lines: the only markers are those of the changed-line caps.
C7_TrailingWindow ==
    pc = "rendered" =>
        /\ TrailShown(lines) =
              ContextSegment(FirstN(split.trailing, Min(Len(split.trailing), window)), width)
        /\ Len(SelectSeq(lines, IsMark)) =
              (IF Len(split.old_changed) > max_diff_lines THEN 1 ELSE 0)
              + (IF Len(split.new_changed) > max_diff_lines THEN 1 ELSE 0)

\* a suffix longer than a positive window, cut to its first lines
C7_Witness ==
    /\ pc = "rendered"
    /\ window >= 1
    /\ Len(split.trailing) > window
    /\ split.trailing[1] # split.trailing[Len(split.trailing)]
    /\ Len(TrailShown(lines)) = window

\* C8: monotonicity: a rendering with a window N1 <= N shows at most as many
\* context lines as the rendering with window N.
C8_WindowMonotone ==
    pc = "rendered" =>
        \A n1 \in 0..window :
            Len(SelectSeq(render_diff_block(old_text, new_text, width, n1), IsContext))
                <= Len(SelectSeq(lines, IsContext))

\* C9: elision accounting, for each side on its own: the first
\* min(len(changed), cap) changed lines are shown in order, a marker is shown
\* iff len(changed) > cap, its count is len(changed) - cap >= 1, and shown
\* lines plus elided count is the number of changed lines.
SideAccounted(changed, shown, marks, prefix, color) ==
    LET k == Min(Len(changed), max_diff_lines)
    IN  /\ shown = [i \in 1..k |-> format_diff_line(changed[i], prefix, color, width)]
        /\ Len(marks) = (IF Len(changed) > max_diff_lines THEN 1 ELSE 0)
        /\ \A i \in 1..Len(marks) :
              /\ MarkCount(marks[i]) = Len(changed) - max_diff_lines
              /\ MarkCount(marks[i]) >= 1
              /\ marks[i] = ElisionLine(color, MarkCount(marks[i]))
        /\ Len(shown) + (IF marks = <<>> THEN 0 ELSE MarkCount(marks[1])) = Len(changed)

C9_ElisionAccounting ==
    pc = "rendered" =>
        \E dels \in {SelectSeq(lines, IsDeletion)}, dmark \in {SelectSeq(lines, IsDelMark)},
           adds \in {SelectSeq(lines, IsAddition)}, amark \in {SelectSeq(lines, IsAddMark)} :
            /\ SideAccounted(split.old_changed, dels, dmark, "-", "red")
            /\ SideAccounted(split.new_changed, adds, amark, "+", "green")

\* one side over the cap by two lines, the other exactly at the cap
C9_Witness ==
    /\ pc = "rendered"
    /\ Len(split.old_changed) = max_diff_lines + 2
    /\ Len(split.new_changed) = max_diff_lines
    /\ \E i \in 1..Len(lines) : IsDelMark(lines[i]) /\ MarkCount(lines[i]) = 2
    /\ \A i \in 1..Len(lines) : ~IsAddMark(lines[i])

\* C10: segment order: the output is the kept leading context, the kept
\* deletions, the deletion marker if any, the kept additions, the addition
\* marker if any and the kept trailing context, in this order and nothing
\* else; each segment keeps the order of the input lines.
C10_SegmentOrder ==
    pc = "rendered" =>
        \E lead \in {LeadShown(lines)}, trail \in {TrailShown(lines)},
           dels \in {SelectSeq(lines, IsDeletion)}, dmark \in {SelectSeq(lines, IsDelMark)},
           adds \in {SelectSeq(lines, IsAddition)}, amark \in {SelectSeq(lines, IsAddMark)} :
            /\ lines = lead \o dels \o dmark \o adds \o amark \o trail
            /\ Len(dmark) <= 1 /\ Len(amark) <= 1
            /\ Len(lead) <= Len(split.leading)
            /\ lead = ContextSegment(LastN(split.leading, Len(lead)), width)
            /\ Len(trail) <= Len(split.trailing)
            /\ trail = ContextSegment(FirstN(split.trailing, Len(trail)), width)
            /\ Len(dels) <= Len(split.old_changed)
            /\ dels = [i \in 1..Len(dels) |->
                          format_diff_line(split.old_changed[i], "-", "red", width)]
            /\ Len(adds) <= Len(split.new_changed)
            /\ adds = [i \in 1..Len(adds) |->
                          format_diff_line(split.new_changed[i], "+", "green", width)]

\* context, deletions with their marker, additions with their marker
C10_Witness ==
    /\ pc = "rendered"
    /\ LeadShown(lines) # <<>>
    /\ \E i, j \in 1..Len(lines) : IsDelMark(lines[i]) /\ IsAddMark(lines[j])
    /\ \E i, j \in 1..Len(split.old_changed) : split.old_changed[i] # split.old_changed[j]

\* C11: splitting a text never yields an empty line sequence and the empty
\* text yields the one line ""; the rendering of old = "" and new = "" is
\* exactly one empty leading-context line, with no deletion, addition or
\* elision line.
C11_Degenerate ==
    pc \in {"split", "rendered"} =>
        /\ Len(old_lines) >= 1 /\ Len(new_lines) >= 1
        /\ old_text = <<>> => old_lines = << <<>> >>
        /\ new_text = <<>> => new_lines = << <<>> >>
        /\ (pc = "rendered" /\ old_text = <<>> /\ new_text = <<>>) =>
              /\ lines = << <<"[dim]", " ", " ", "[/dim]">> >>
              /\ split.leading = << <<>> >>

\* both texts empty, rendered with the default window
C11_Witness ==
    /\ pc = "rendered"
    /\ old_text = <<>> /\ new_text = <<>>
    /\ window = 2
    /\ Len(lines) = 1

\* ------------------------------------------------------------- _truncate
MaxTruncLen == 4
MaxTruncWidth == 4

TruncAlphabet == {"a", "b", " ", "\n"}

RECURSIVE CharSeqs(_)
CharSeqs(n) ==
    IF n = 0 THEN {<<>>}
    ELSE {Append(t, c) : t \in CharSeqs(n - 1), c \in TruncAlphabet}

TruncTexts == UNION {CharSeqs(n) : n \in 0..MaxTruncLen}

\* no diff is under way
DiffIdle ==
    /\ old_text = <<>> /\ new_text = <<>> /\ pc = "idle"
    /\ old_lines = <<>> /\ new_lines = <<>> /\ split = NoSplit
    /\ width = DisplayWidth /\ window = 2 /\ lines = <<>>

InitTruncate ==
    /\ DiffIdle
    /\ NumIdle
    /\ HookIdle
    /\ BlockIdle
    /\ t_pc = "start"
    /\ t_text \in TruncTexts
    /\ t_max \in 1..MaxTruncWidth
    /\ t_out = <<>>

\* a call _truncate(text, max_len)
CallTruncate ==
    /\ t_pc = "start"
    /\ t_out' = Truncate(t_text, t_max)
    /\ t_pc' = "done"
    /\ UNCHANGED <<t_text, t_max>>
    /\ UNCHANGED <<diffVars, numVars, hookVars, blockVars>>

NextTruncate == CallTruncate

SpecTruncate == InitTruncate /\ [][NextTruncate]_vars

\* the line _truncate works on: newlines replaced by blanks, then the blanks
\* at both ends removed
TruncLine == Strip(ReplaceNewlines(t_text))

\* C12: for every text and width w >= 1 the result has no newline and at most
\* w characters; a line longer than w gives its first w - 1 characters and
\* one ellipsis, any other line is returned whole.
C12_Truncation ==
    t_pc = "done" =>
        /\ \A i \in 1..Len(t_out) : t_out[i] # "\n"
        /\ Len(t_out) <= t_max
        /\ Len(TruncLine) > t_max =>
              /\ t_out = FirstN(TruncLine, t_max - 1) \o <<Ellipsis>>
              /\ \A i \in 1..(t_max - 1) : t_out[i] # Ellipsis
        /\ Len(TruncLine) <= t_max => t_out = TruncLine

\* a text with an inner newline, longer than the width after stripping
C12_Witness ==
    /\ t_pc = "done"
    /\ t_max >= 2
    /\ Len(TruncLine) > t_max
    /\ \E i \in 1..Len(t_text) : t_text[i] = "\n" /\ ~IsSpace(t_text[1])
    /\ t_out[Len(t_out)] = Ellipsis

\* ------------------------------------------------ _format_compact_number
MaxSmall == 40
MaxMult == 30

Thousand == 1000
Million == 1000000
\* the two examples of the docstring
ExampleK == 1234
ExampleM == 1234567

\* f"{n / d:.0f}": the quotient rounded to an integer, an exact half to even
FixedZero(n, d) ==
    LET q == n \div d
        r == n % d
    IN  IntToStr(IF 2 * r > d \/ (2 * r = d /\ q % 2 = 1) THEN q + 1 ELSE q)

\* f"{n / d:.1f}": the quotient rounded to tenths, printed with one decimal.
\* (An exact half is rounded to even here; no input of NumInputs is one.)
FixedOne(n, d) ==
    LET q == (10 * n) \div d
        r == (10 * n) % d
        t == IF 2 * r > d \/ (2 * r = d /\ q % 2 = 1) THEN q + 1 ELSE q
    IN  IntToStr(t \div 10) \o <<".">> \o <<Digit(t % 10)>>

\* s.rstrip(c)
RECURSIVE RStripChar(_, _)
RStripChar(s, c) ==
    IF s # <<>> /\ s[Len(s)] = c THEN RStripChar(SubSeq(s, 1, Len(s) - 1), c) ELSE s

format_compact_number(n) ==
    IF n >= Million
    THEN IF n >= Million
         THEN RStripChar(RStripChar(FixedOne(n, Million) \o <<"M">>, "0"), ".") \o <<"M">>
         ELSE FixedZero(n, Thousand) \o <<"k">>
    ELSE IF n >= Thousand
    THEN FixedZero(n, Thousand) \o <<"k">>
    ELSE IntToStr(n)

\* the token counts tried: small counts, the values around the two
\* thresholds and multiples of the docstring's examples
NumInputs ==
    (0..MaxSmall)
    \cup {Thousand - 1, Thousand, Million - 1, Million}
    \cup {ExampleK * k : k \in 1..MaxMult}
    \cup {ExampleM * k : k \in 1..MaxMult}

InitNumber ==
    /\ DiffIdle
    /\ TruncIdle
    /\ HookIdle
    /\ BlockIdle
    /\ n_pc = "start"
    /\ n_in \in NumInputs
    /\ n_out = <<>>

\* a call _format_compact_number(n)
CallFormatCompactNumber ==
    /\ n_pc = "start"
    /\ n_out' = format_compact_number(n_in)
    /\ n_pc' = "done"
    /\ UNCHANGED n_in
    /\ UNCHANGED <<diffVars, truncVars, hookVars, blockVars>>

NextNumber == CallFormatCompactNumber

SpecNumber == InitNumber /\ [][NextNumber]_vars

\* the number of tokens of s that are c
Count(s, c) == Cardinality({i \in 1..Len(s) : s[i] = c})

\* C14: the docstring of _format_compact_number: 1234 gives "1.2k" and
\* 1234567 gives "1.2M"; values below 1000 are printed as they are, thousands
\* end in a single "k" and millions in a single "M".
C14_CompactNumber ==
    n_pc = "done" =>
        /\ n_in = ExampleK => n_out = <<"1", ".", "2", "k">>
        /\ n_in = ExampleM => n_out = <<"1", ".", "2", "M">>
        /\ n_in < Thousand => n_out = IntToStr(n_in)
        /\ (n_in >= Thousand /\ n_in < Million) =>
              n_out[Len(n_out)] = "k" /\ Count(n_out, "k") = 1
        /\ n_in >= Million =>
              n_out[Len(n_out)] = "M" /\ Count(n_out, "M") = 1

\* -------------------------------------- handle_tool_pre, handle_tool_post
\* A dict is a function from its keys; a string is a sequence of tokens in
\* which "_" and ":" are tokens of their own; None is the empty sequence
\* (the code only tests it for truth).  A tool result is tagged with its
\* Python type: [t |-> "str", v |-> s] or [t |-> "dict", v |-> d].
max_param_len == 50
max_result_len == 60

IconTool == "ICON_TOOL"
IconOk == "ICON_OK"
IconFail == "ICON_FAIL"
IconWarn == "ICON_WARN"

\* d.get(k, default)
Get(d, k, default) == IF k \in DOMAIN d THEN d[k] ELSE default

StrVal(s) == [t |-> "str", v |-> s]
DictVal(d) == [t |-> "dict", v |-> d]
IsDict(r) == r.t = "dict"

\* c in s
Contains(s, c) == \E i \in 1..Len(s) : s[i] = c

\* s.startswith("session_")
StartsWithSession(s) == Len(s) >= 2 /\ s[1] = "session" /\ s[2] = "_"

\* s.rsplit("_", 1)[1] for a string s that contains "_"
AfterLastUnderscore(s) ==
    LET i == CHOOSE j \in 1..Len(s) : s[j] = "_" /\ \A k \in (j + 1)..Len(s) : s[k] # "_"
    IN  SubSeq(s, i + 1, Len(s))

\* ToolContext.from_data(data, phase)
from_data(data, phase) ==
    LET session_id   == Get(data, "session_id", <<>>)
        is_sub_agent == Contains(session_id, "_") /\ ~StartsWithSession(session_id)
        raw          == Get(data, "tool_response", Get(data, "result", DictVal(EmptyDict)))
    IN  [tool_name    |-> Get(data, "tool_name", "unknown"),
         tool_input   |-> Get(data, "tool_input", EmptyDict),
         result       |-> IF IsDict(raw) /\ "output" \in DOMAIN raw.v THEN raw.v["output"] ELSE raw,
         session_id   |-> session_id,
         is_sub_agent |-> is_sub_agent,
         agent_name   |-> IF is_sub_agent THEN AfterLastUnderscore(session_id) ELSE <<>>,
         phase        |-> phase]

\* a renderer returned None
NoRender == [none |-> TRUE, content |-> <<>>, status |-> ""]
Rendered(content, status) == [none |-> FALSE, content |-> content, status |-> status]

\* _format_count(n, singular): f"{n} {singular if n == 1 else plural}"
format_count(n, singular) ==
    IntToStr(n) \o <<" ", singular>> \o (IF n = 1 THEN <<>> ELSE <<"s">>)

\* _render_file_op for read_file
render_file_op(ctx) ==
    LET short_path == Truncate(Get(ctx.tool_input, "file_path", <<>>), max_param_len)
        r          == ctx.result
        n          == IF Get(r.v, "lines_read", 0) # 0 THEN r.v["lines_read"]
                      ELSE Get(r.v, "total_lines", 0)
    IN  IF ctx.phase = "call" THEN Rendered(short_path, "")
        ELSE IF ~IsDict(r) THEN NoRender
        ELSE IF n # 0 THEN Rendered(format_count(n, "line"), "")
        ELSE NoRender

\* _render_edit_file: what it returns
render_edit_file(ctx) ==
    LET short_path == Truncate(Get(ctx.tool_input, "file_path", <<>>), max_param_len)
        r          == ctx.result
    IN  IF ctx.phase = "call" THEN Rendered(short_path, "diff")
        ELSE IF IsDict(r) THEN Rendered(format_count(Get(r.v, "replacements_made", 1), "edit"), "")
        ELSE NoRender

\* _render_edit_file: ctx.tool_input["_diff_display"] = {...}, the dict
\* tool_input as it is after the call phase
edit_file_tool_input(tool_input) ==
    ("_diff_display" :>
        [path        |-> Truncate(Get(tool_input, "file_path", <<>>), max_param_len),
         old         |-> Get(tool_input, "old_string", <<>>),
         new         |-> Get(tool_input, "new_string", <<>>),
         replace_all |-> FALSE])
    @@ tool_input

\* the keys of RENDERERS
RendererNames ==
    {"read_file", "write_file", "edit_file", "grep", "glob", "bash",
     "python_check", "todo", "task", "web_fetch", "web_search", "recipes",
     "shadow", "load_skill"}

\* renderer = RENDERERS.get(ctx.tool_name, self._render_generic) is the bound
\* method _render_generic(self, ctx) for a tool without an entry, and the call
\* renderer(ctx, self.config) then passes it one argument too many
RendererRaises(ctx) == ctx.tool_name \notin RendererNames

\* renderer(ctx, self.config) for the tools of ToolNames that have an entry
Render(ctx) ==
    IF ctx.tool_name = "read_file" THEN render_file_op(ctx)
    ELSE render_edit_file(ctx)

\* ConciseDisplayHooks._get_indent_prefix, with the default configuration
\* (indent_sub_agents and show_agent_name are True)
get_indent_prefix(ctx) ==
    IF ctx.is_sub_agent
    THEN IF ctx.agent_name # <<>>
         THEN <<" ", " ", "[dim]", "\\[">> \o ctx.agent_name \o <<"]", "[/dim]", " ">>
         ELSE <<" ", " ">>
    ELSE <<>>

\* ConciseDisplayHooks._format_line, with the default configuration
format_line(ctx, content, status) ==
    LET indent == IF ctx.is_sub_agent
                  THEN <<" ", " ">> \o (IF ctx.agent_name # <<>>
                                        THEN <<"[dim]", "\\[">> \o ctx.agent_name
                                                 \o <<"]", "[/dim]", " ">>
                                        ELSE <<>>)
                  ELSE <<>>
        color  == IF status = "fail" THEN "red" ELSE IF status = "warn" THEN "yellow" ELSE "dim"
        icon   == IF status = "fail" THEN <<"[red]", IconFail, "[/red]">>
                  ELSE IF status = "warn" THEN <<"[yellow]", IconWarn, "[/yellow]">>
                  ELSE <<"[green]", IconOk, "[/green]">>
    IN  IF ctx.phase = "call"
        THEN indent \o <<"[blue]", IconTool, " ", ctx.tool_name, ":", "[/blue]">>
                \o (IF content # <<>> THEN <<" ", "[dim]">> \o content \o <<"[/dim]">> ELSE <<>>)
        ELSE indent \o icon
                \o (IF content # <<>>
                    THEN <<" ", "[", color, "]">> \o content \o <<"[/", color, "]">>
                    ELSE <<>>)

\* {**data, "hook_metadata": {"concise_displayed": True}}
WithMetadata(data) == ("hook_metadata" :> [concise_displayed |-> TRUE]) @@ data

\* the default context_lines of _render_diff_block
default_context_lines == 2

\* the writes of handle_tool_pre once the renderer returned content, status
PreWrites(ctx, content, status) ==
    LET line     == <<"\n">> \o format_line(ctx, content, "") \o <<"\n">>
        old_str  == Get(ctx.tool_input, "old_string", <<>>)
        new_str  == Get(ctx.tool_input, "new_string", <<>>)
        indent   == get_indent_prefix(ctx)
        diff     == render_diff_block(old_str, new_str, max_result_len, default_context_lines)
    IN  IF status = "diff" /\ (old_str # <<>> \/ new_str # <<>>)
        THEN <<line>> \o [i \in 1..Len(diff) |-> indent \o <<" ", " ">> \o diff[i] \o <<"\n">>]
        ELSE <<line>>

\* the event data tried: each key is absent or has one of a few values
ToolNames == {"todo", "edit_file", "read_file", "custom"}

ToolInputs ==
    {EmptyDict,
     "file_path" :> <<"f">>,
     ("file_path" :> <<"f">>) @@ ("old_string" :> <<"a", "\n", "b">>)
         @@ ("new_string" :> <<"a", "\n", "c">>),
     ("file_path" :> <<"f">>) @@ ("old_string" :> <<>>) @@ ("new_string" :> <<>>),
     "command" :> <<"l", "s">>}

SessionIds ==
    {<<"session", "_", "1">>, <<"abc", "_", "foundation", ":", "explorer">>}

ToolResults ==
    {StrVal(<<"o", "k", "\n", "x">>),
     DictVal(EmptyDict),
     DictVal("lines_read" :> 3),
     DictVal("replacements_made" :> 2),
     DictVal("error" :> <<"e">>),
     DictVal("count" :> 2),
     DictVal("output" :> DictVal("lines_read" :> 1))}

Optional(key, values) == {EmptyDict} \cup {key :> v : v \in values}

EventData ==
    {tn @@ ti @@ sid @@ res :
        tn \in Optional("tool_name", ToolNames),
        ti \in Optional("tool_input", ToolInputs),
        sid \in Optional("session_id", SessionIds),
        res \in Optional("result", ToolResults)
                  \cup {"tool_response" :> DictVal("lines_read" :> 3)}}

InitHooks ==
    /\ DiffIdle
    /\ TruncIdle
    /\ NumIdle
    /\ BlockIdle
    /\ h_pc = "start"
    /\ h_enabled \in BOOLEAN
    /\ h_in \in EventData
    /\ h_data = h_in
    /\ h_result = NoResult
    /\ h_written = <<>>

\* handle_tool_pre(_event, data).  (No event of EventData names write_file,
\* so the write_preview branch is not taken.)
HandleToolPre ==
    /\ h_pc = "start"
    /\ h_pc' = "pre_done"
    /\ IF ~h_enabled \/ Get(h_data, "tool_name", "") = "todo"
       THEN /\ h_result' = [action |-> "continue", data |-> EmptyDict]
            /\ UNCHANGED <<h_data, h_written>>
       ELSE \E ctx \in {from_data(h_data, "call")} :
            IF RendererRaises(ctx)
            THEN /\ h_result' = [action |-> "TypeError", data |-> EmptyDict]
                 /\ UNCHANGED <<h_data, h_written>>
            ELSE
            \E res \in {Render(ctx)} :
            \E after \in {IF ctx.tool_name = "edit_file" /\ "tool_input" \in DOMAIN h_data
                          THEN [h_data EXCEPT !["tool_input"] = edit_file_tool_input(@)]
                          ELSE h_data} :
               /\ h_data' = after
               /\ h_written' = PreWrites(ctx, res.content, res.status)
               /\ h_result' = [action |-> "modify", data |-> WithMetadata(after)]
    /\ UNCHANGED <<h_enabled, h_in>>
    /\ UNCHANGED <<diffVars, truncVars, numVars, blockVars>>

\* handle_tool_post(_event, data)
HandleToolPost ==
    /\ h_pc = "start"
    /\ h_pc' = "post_done"
    /\ IF ~h_enabled \/ Get(h_data, "tool_name", "") = "todo"
       THEN /\ h_result' = [action |-> "continue", data |-> EmptyDict]
            /\ UNCHANGED h_written
       ELSE \E ctx \in {from_data(h_data, "result")} :
            IF RendererRaises(ctx)
            THEN /\ h_result' = [action |-> "TypeError", data |-> EmptyDict]
                 /\ UNCHANGED h_written
            ELSE
            \E res \in {Render(ctx)} :
               /\ h_written' = <<format_line(ctx, res.content, res.status) \o <<"\n">>>>
               /\ h_result' = [action |-> "modify", data |-> WithMetadata(h_data)]
    /\ UNCHANGED <<h_enabled, h_in, h_data>>
    /\ UNCHANGED <<diffVars, truncVars, numVars, blockVars>>

NextHooks == HandleToolPre \/ HandleToolPost

SpecHooks == InitHooks /\ [][NextHooks]_vars

\* d is the dict d0 with hook_metadata set to {concise_displayed: True}
IsWithMetadata(d, d0) ==
    /\ DOMAIN d = DOMAIN d0 \cup {"hook_metadata"}
    /\ \A k \in DOMAIN d0 \ {"hook_metadata"} : d[k] = d0[k]
    /\ d["hook_metadata"] = [concise_displayed |-> TRUE]

\* handle_tool_pre and handle_tool_post skip the event
HookSkips == ~h_enabled \/ Get(h_in, "tool_name", "") = "todo"

\* C13: both hooks return "continue" and write nothing exactly when the
\* config is disabled or the tool is "todo"; otherwise they write the
\* rendered line(s) and return "modify" with the incoming event data plus
\* hook_metadata = {concise_displayed: True}.
C13_HookOutcome ==
    h_pc \in {"pre_done", "post_done"} =>
        /\ HookSkips => (h_result.action = "continue" /\ h_written = <<>>)
        /\ ~HookSkips =>
              /\ h_result.action = "modify"
              /\ h_written # <<>>
              /\ IsWithMetadata(h_result.data, h_in)

\* C15: handle_tool_pre leaves the caller's event data unchanged, the nested
\* tool_input included, and the data it forwards differs from the incoming
\* data only by hook_metadata.
C15_PreFrame ==
    h_pc = "pre_done" =>
        /\ h_data = h_in
        /\ h_result.action = "modify" => IsWithMetadata(h_result.data, h_in)

\* ---------------------------------------------------------------------
\* handle_content_block_start, handle_content_block_end
\* ---------------------------------------------------------------------

IconThink == "ICON_THINK"

ThinkingTypes == {"thinking", "reasoning"}

\* max_lines of handle_content_block_end
max_lines == 5

\* _terminal_width() where no terminal is attached
terminal_width == 80

\* _parse_agent_from_session_id(session_id); <<>> is None
parse_agent_from_session_id(session_id) ==
    IF session_id = <<>> \/ ~Contains(session_id, "_")
    THEN <<>>
    ELSE LET part == AfterLastUnderscore(session_id)
         IN  IF Contains(part, ":") THEN part ELSE <<>>

\* textwrap.wrap(line, width=w) for a line without whitespace: the line is
\* cut into pieces of w characters, and an empty line gives no piece
RECURSIVE Wrap(_, _)
Wrap(line, w) ==
    IF line = <<>> THEN <<>>
    ELSE IF Len(line) <= w THEN <<line>>
    ELSE <<SubSeq(line, 1, w)>> \o Wrap(SubSeq(line, w + 1, Len(line)), w)

\* the wrapped lines of all lines, in order: textwrap.wrap(line, ...) or [""]
RECURSIVE WrapAll(_, _)
WrapAll(ls, w) ==
    IF ls = <<>> THEN <<>>
    ELSE (IF Wrap(Head(ls), w) = <<>> THEN << <<>> >> ELSE Wrap(Head(ls), w))
         \o WrapAll(Tail(ls), w)

\* the writes of handle_content_block_end that show thinking_text for a block
\* recorded with agent_name
ThinkingLines(thinking_text, agent_name) ==
    LET indent      == IF agent_name # <<>> THEN <<" ", " ">> ELSE <<>>
        ls          == Split(Strip(thinking_text))
        base_indent == indent \o <<" ", " ", " ">>
        wrapped     == WrapAll(ls, terminal_width - 7)
        shown       == Min(max_lines, Len(wrapped))
        more        == IF Len(ls) > max_lines
                       THEN << <<"[dim]">> \o base_indent \o <<"(", "+">>
                               \o IntToStr(Len(ls) - max_lines)
                               \o <<" ", "more", " ", "lines", ")", "[/dim]", "\n">> >>
                       ELSE <<>>
    IN  [k \in 1..shown |-> <<"[dim]">> \o base_indent \o wrapped[k] \o <<"[/dim]", "\n">>]
        \o more

\* the write of handle_content_block_start for a thinking block
ThinkingIndicator(agent_name) ==
    IF agent_name # <<>>
    THEN <<"\n", " ", " ", "[dim]", "\\[">> \o agent_name
         \o <<"]", "[/dim]", " ", "[blue]", IconThink, " ", "Thinking...", "[/blue]", "\n">>
    ELSE <<"\n", "[blue]", IconThink, " ", "Thinking...", "[/blue]", "\n">>

\* the token usage line of handle_content_block_end (config.show_token_usage
\* is True, its default); the percentage is exact for the usages of Usages
UsageWrites(data) ==
    LET total_blocks  == Get(data, "total_blocks", 0)
        is_last_block == total_blocks # 0 /\ data["block_index"] = total_blocks - 1
        usage         == Get(data, "usage", EmptyDict)
        agent_name    == parse_agent_from_session_id(Get(data, "session_id", <<>>))
        indent        == IF agent_name # <<>> THEN <<" ", " ">> ELSE <<>>
        input_tokens  == Get(usage, "input_tokens", 0)
        output_tokens == Get(usage, "output_tokens", 0)
        cache_read    == Get(usage, "cache_read_input_tokens", 0)
        cache_create  == Get(usage, "cache_creation_input_tokens", 0)
        total_input   == input_tokens + cache_read + cache_create
        cache_pct     == IF total_input > 0 THEN (cache_read * 100) \div total_input ELSE 0
        cache_info    == IF cache_read > 0
                         THEN <<" ", "(">> \o IntToStr(cache_pct) \o <<"%", " ", "cached", ")">>
                         ELSE IF cache_create > 0
                         THEN <<" ", "(", "caching...", ")">>
                         ELSE <<>>
    IN  IF is_last_block /\ usage # EmptyDict
        THEN << <<"[dim]">> \o indent \o <<"BOX", " ">> \o format_compact_number(total_input)
                \o <<" ", "tokens", " ", "in">> \o cache_info \o <<" ", "DOT", " ">>
                \o format_compact_number(output_tokens)
                \o <<" ", "out", "[/dim]", "\n", "\n">> >>
        ELSE <<>>

\* self.thinking_blocks[block_index] = {"agent": agent_name}
BlocksAfterStart(blocks, block_index, agent_name) ==
    (block_index :> [agent |-> agent_name]) @@ blocks

\* del blocks[block_index]
Remove(blocks, block_index) ==
    [k \in DOMAIN blocks \ {block_index} |-> blocks[k]]

\* a del that is done only when the thinking text is shown
BlocksAfterEnd_del_when_shown(blocks, block_index, shown) ==
    IF shown THEN Remove(blocks, block_index) ELSE blocks

\* self.thinking_blocks after the end of a tracked thinking block: the del
\* follows the display, whether or not the text was shown
BlocksAfterEnd(blocks, block_index, shown) ==
    Remove(blocks, block_index)

\* the events tried: two block indices that both sessions of SessionIds use,
\* three block types, three thinking texts (none, one line, more than
\* max_lines lines), and an end event with or without total_blocks and usage
BlockIndices == {0, 1}

BlockTypes == ThinkingTypes \cup {"text"}

ThinkingTexts ==
    {<<>>, <<"t">>, <<"a", "\n", "b", "\n", "c", "\n", "d", "\n", "e", "\n", "f">>}

Usages ==
    {("input_tokens" :> 1234) @@ ("output_tokens" :> 5),
     ("input_tokens" :> 50) @@ ("cache_read_input_tokens" :> 50) @@ ("output_tokens" :> 5)}

EndTails(block_index) ==
    {EmptyDict, "total_blocks" :> (block_index + 1)}
    \cup {("total_blocks" :> (block_index + 1)) @@ ("usage" :> u) : u \in Usages}

InitBlocks ==
    /\ DiffIdle
    /\ TruncIdle
    /\ NumIdle
    /\ HookIdle
    /\ cb_enabled \in BOOLEAN
    /\ cb_show_thinking \in BOOLEAN
    /\ thinking_blocks = EmptyDict
    /\ cb_open = {}
    /\ cb_last = NoEvent

\* handle_content_block_start(_event, data), for a block the session has not
\* open
HandleContentBlockStart ==
    \E session_id \in SessionIds, block_index \in BlockIndices, block_type \in BlockTypes :
    \E agent_name \in {parse_agent_from_session_id(session_id)} :
    \E tracks \in {cb_enabled /\ cb_show_thinking /\ block_type \in ThinkingTypes} :
        /\ ~\E b \in cb_open : b.session = session_id /\ b.index = block_index
        /\ cb_open' = cb_open \cup
              {[session |-> session_id, index |-> block_index, block_type |-> block_type]}
        /\ thinking_blocks' =
              IF tracks THEN BlocksAfterStart(thinking_blocks, block_index, agent_name)
              ELSE thinking_blocks
        /\ cb_last' =
              [kind |-> "start", session |-> session_id, index |-> block_index,
               block_type |-> block_type, text |-> <<>>,
               tracked |-> block_index \in DOMAIN thinking_blocks,
               written |-> IF tracks THEN <<ThinkingIndicator(agent_name)>> ELSE <<>>]
        /\ UNCHANGED <<cb_enabled, cb_show_thinking>>
        /\ UNCHANGED <<diffVars, truncVars, numVars, hookVars>>

\* handle_content_block_end(_event, data), for a block the session has open;
\* the event carries the block with the type it started with
HandleContentBlockEnd ==
    \E b \in cb_open, text \in ThinkingTexts :
    \E tail \in EndTails(b.index) :
    \E block \in {("type" :> b.block_type)
                  @@ (IF b.block_type = "thinking" THEN "thinking" :> text
                      ELSE "text" :> text)} :
    \E data \in {("block_index" :> b.index) @@ ("block" :> block)
                 @@ ("session_id" :> b.session) @@ tail} :
    \E tracked \in {cb_enabled /\ block["type"] \in ThinkingTypes
                    /\ data["block_index"] \in DOMAIN thinking_blocks} :
    \E thinking_text \in {IF Get(block, "thinking", <<>>) # <<>>
                          THEN block["thinking"] ELSE Get(block, "text", <<>>)} :
    \E shown \in {thinking_text # <<>> /\ cb_show_thinking} :
        /\ cb_open' = cb_open \ {b}
        /\ thinking_blocks' =
              IF tracked THEN BlocksAfterEnd(thinking_blocks, b.index, shown)
              ELSE thinking_blocks
        /\ cb_last' =
              [kind |-> "end", session |-> b.session, index |-> b.index,
               block_type |-> b.block_type, text |-> text,
               tracked |-> b.index \in DOMAIN thinking_blocks,
               written |->
                  IF ~cb_enabled THEN <<>>
                  ELSE (IF tracked /\ shown
                        THEN ThinkingLines(thinking_text, thinking_blocks[b.index].agent)
                        ELSE <<>>)
                       \o UsageWrites(data)]
        /\ UNCHANGED <<cb_enabled, cb_show_thinking>>
        /\ UNCHANGED <<diffVars, truncVars, numVars, hookVars>>

NextBlocks == HandleContentBlockStart \/ HandleContentBlockEnd

SpecBlocks == InitBlocks /\ [][NextBlocks]_vars

\* the thinking blocks that some session has started and not ended
OpenThinking == {b \in cb_open : b.block_type \in ThinkingTypes}

C17_Interleaved ==
    (cb_enabled /\ cb_show_thinking) =>
        /\ \A b \in OpenThinking :
              /\ b.index \in DOMAIN thinking_blocks
              /\ thinking_blocks[b.index].agent = parse_agent_from_session_id(b.session)
        /\ (cb_last.kind = "end" /\ cb_last.block_type \in ThinkingTypes
               /\ cb_last.text # <<>>)
              => LET expected ==
                         ThinkingLines(cb_last.text,
                                       parse_agent_from_session_id(cb_last.session))
                 IN  /\ Len(cb_last.written) >= Len(expected)
                     /\ SubSeq(cb_last.written, 1, Len(expected)) = expected

====
